---------------------------- MODULE Spec2Model ----------------------------
(***************************************************************************)
(* A model of std::experimental::rational<type>                            *)
(* (include/std/experimental/rational.hpp).                                *)
(*                                                                         *)
(* The base type is modelled by the mathematical integers: every property  *)
(* checked here is stated "in the absence of base-type overflow", and on   *)
(* that domain machine arithmetic and integer arithmetic agree.  The       *)
(* exploration is kept finite by a window on the stored pair (MaxVal) and  *)
(* on the integer arguments (MaxArg).                                      *)
(*                                                                         *)
(* A throw of std::domain_error is the status "domain_error" of an         *)
(* operation's result; "ok" is a normal return.                            *)
(***************************************************************************)
EXTENDS Integers, Sequences, FiniteSets, TLC

\* Largest magnitude of a stored numerator or denominator that is explored.
MaxVal == 6
\* Largest magnitude of an integer argument (type) that is explored.
MaxArg == 2
\* Largest magnitude of the integers the comparison inputs are built from.
MaxCmp == 6

VARIABLES
  r,        \* the rational under test: [num, den] = (numerator_, denominator_)
  pre,      \* r as it was before the last operation
  op,       \* the last operation
  args,     \* its integer arguments
  that,     \* its rational argument ("that" of the member operators)
  outcome,  \* "ok" or "domain_error" (std::domain_error thrown)
  ret,      \* <<v>> when the last operation returned the rational v, else <<>>
  hist,     \* what a two-operation sequence started from, see Undo
  cmp,      \* the results of the comparison operators
  fin,      \* the floating-point argument of the last operation
  ev        \* the result of evaluate

vars == <<r, pre, op, args, that, outcome, ret, hist, cmp, fin, ev>>

Rat(n, d) == [num |-> n, den |-> d]
Zero == Rat(0, 1)
Abs(x) == IF x < 0 THEN -x ELSE x

\* Integer division of the base type: the quotient truncated towards zero.
TruncDiv(a, b) ==
  IF (a >= 0) = (b > 0) THEN Abs(a) \div Abs(b) ELSE -(Abs(a) \div Abs(b))

RECURSIVE Euclid(_, _)
Euclid(m, n) == IF n = 0 THEN m ELSE Euclid(n, m % n)

\* std::gcd: the greatest common divisor of |m| and |n|, never negative.
gcd(m, n) == Euclid(Abs(m), Abs(n))

\* rational::canonize.  It is only ever called with a nonzero denominator,
\* so gcd is never 0 there.
canonizeUnsigned(x) ==
  LET g == gcd(x.num, x.den)
  IN  IF g = 0 THEN x ELSE Rat(TruncDiv(x.num, g), TruncDiv(x.den, g))
canonizeUnreduced(x) ==
  IF 0 > x.den THEN Rat(-x.num, -x.den) ELSE x
canonize(x) ==
  LET g == gcd(x.num, x.den)
      n == IF g = 0 THEN x.num ELSE TruncDiv(x.num, g)
      d == IF g = 0 THEN x.den ELSE TruncDiv(x.den, g)
  IN  IF 0 > d THEN Rat(-n, -d) ELSE Rat(n, d)

\* The result of an operation on the receiver x: the status, the receiver
\* afterwards (val) and the rational returned by value, if any (ret).
Done(v)        == [status |-> "ok", val |-> v, ret |-> <<>>]
Returned(x, v) == [status |-> "ok", val |-> x, ret |-> <<v>>]
Thrown(v)      == [status |-> "domain_error", val |-> v, ret |-> <<>>]

\* rational(numerator, denominator): the object constructed, or the throw.
\* On a throw no object exists; val is then the pair the constructor had
\* written into the discarded storage.
rationalUnchecked(n, d) ==
  IF d = 0 THEN Done(Rat(n, d)) ELSE Done(canonize(Rat(n, d)))
rational(n, d) ==
  IF d = 0 THEN Thrown(Rat(n, d)) ELSE Done(canonize(Rat(n, d)))

\* operator=(const type&)
assign_int(x, n) == Done(Rat(n, 1))

\* numerator(value), denominator(value), assign(numerator, denominator)
set_numerator(x, v) == Done(canonize(Rat(v, x.den)))
set_denominator(x, v) ==
  IF v = 0 THEN Thrown(x) ELSE Done(canonize(Rat(x.num, v)))
assign(x, n, d) ==
  IF d = 0 THEN Thrown(x) ELSE Done(canonize(Rat(n, d)))

\* Unary operators: each returns a rational built by the two-argument
\* constructor (operator+ by the copy constructor).
operator_plus(x) == Returned(x, x)
operator_minus(x) ==
  LET c == rational(-x.num, x.den)
  IN  IF c.status = "ok" THEN Returned(x, c.val) ELSE Thrown(x)
operator_invert_unchecked(x) == Returned(x, Rat(x.den, x.num))
operator_invert(x) ==
  LET c == rational(x.den, x.num)
  IN  IF c.status = "ok" THEN Returned(x, c.val) ELSE Thrown(x)

\* Arithmetic assignment with a rational.
operator_plus_eq(x, y) ==
  Done(canonize(Rat(x.num * y.den + x.den * y.num, x.den * y.den)))
operator_minus_eq(x, y) ==
  Done(canonize(Rat(x.num * y.den - x.den * y.num, x.den * y.den)))
times_eq_unreduced(x, y) ==
  Done(Rat(x.num * y.num, x.den * y.den))
operator_times_eq(x, y) ==
  Done(canonize(Rat(x.num * y.num, x.den * y.den)))
div_eq_unsigned(x, y) ==
  IF y.num = 0 THEN Thrown(x)
  ELSE Done(canonizeUnsigned(Rat(x.num * y.den, x.den * y.num)))
operator_div_eq(x, y) ==
  IF y.num = 0 THEN Thrown(x)
  ELSE Done(canonize(Rat(x.num * y.den, x.den * y.num)))

\* Arithmetic assignment with a bare integer.  += and -= do not canonize.
operator_plus_eq_int(x, c) == Done(Rat(x.num + c * x.den, x.den))
operator_minus_eq_int(x, c) == Done(Rat(x.num - c * x.den, x.den))
operator_times_eq_int(x, c) == Done(canonize(Rat(x.num * c, x.den)))
operator_div_eq_int(x, c) ==
  IF c = 0 THEN Thrown(x) ELSE Done(canonize(Rat(x.num, x.den * c)))

\* Increment and decrement.  None of them canonizes.
pre_inc_by_one(x) == Done(Rat(x.num + 1, x.den))
operator_pre_inc(x) == Done(Rat(x.num + x.den, x.den))
operator_pre_dec(x) == Done(Rat(x.num - x.den, x.den))
operator_post_inc(x) == Returned(operator_pre_inc(x).val, x)
operator_post_dec(x) == Returned(operator_pre_dec(x).val, x)

\* A free operator works on a copy (result) and returns it; lhs and rhs are
\* const.  FromCopy turns the outcome of the compound form on the copy into
\* the outcome of the free operator called with the rational operand x.
FromCopy(x, res) ==
  IF res.status = "ok" THEN Returned(x, res.val) ELSE Thrown(x)

free_plus_ri(x, c)  == FromCopy(x, operator_plus_eq_int(x, c))
free_plus_ir(c, x)  == FromCopy(x, operator_plus_eq_int(x, c))
free_minus_ri(x, c) == FromCopy(x, operator_minus_eq_int(x, c))
free_minus_ir_unnegated(c, x) == FromCopy(x, operator_minus_eq_int(x, c))
free_minus_ir(c, x) ==
  LET result == operator_minus_eq_int(x, c).val
  IN  FromCopy(x, Done(operator_minus(result).ret[1]))
free_times_ri(x, c) == FromCopy(x, operator_times_eq_int(x, c))
free_times_ir(c, x) == FromCopy(x, operator_times_eq_int(x, c))
free_div_ri(x, c)   == FromCopy(x, operator_div_eq_int(x, c))
\* operator/(type lhs, rational rhs): result(lhs) is rational(lhs, 1).
free_div_ir(c, x)   == FromCopy(x, operator_div_eq(rational(c, 1).val, x))

\* Comparison.  operator== is defaulted: member by member.  operator<=>
\* answers equal when == holds and cross-multiplies otherwise.
ThreeWay(a, b) == IF a < b THEN "less" ELSE IF a > b THEN "greater" ELSE "equal"
operator_eq(x, y) == x.num = y.num /\ x.den = y.den
spaceship_by_numerator(x, y) ==
  IF operator_eq(x, y) THEN "equal" ELSE ThreeWay(x.num, y.num)
operator_spaceship(x, y) ==
  IF operator_eq(x, y) THEN "equal"
  ELSE ThreeWay(x.num * y.den, x.den * y.num)

-----------------------------------------------------------------------------
(* Floating point.  that_type is a binary floating-point format with       *)
(* Mantissa digits (numeric_limits::digits) and largest exponent           *)
(* MaxExponent (numeric_limits::max_exponent), scaled down from float's    *)
(* 24 and 128 and double's 53 and 1024.  A value is                        *)
(*   [kind, sign, m, e]   with   |value| = m * 2^(e - Mantissa),           *)
(* the decomposition std::frexp gives: 2^(Mantissa-1) <= m < 2^Mantissa.   *)
(* Below MinExponent the value is subnormal and m ends in zero bits.       *)
(* As in float and double, Mantissa < MaxExponent - 1.                     *)

Mantissa == 3
MaxExponent == 5
MinExponent == 3 - MaxExponent

RECURSIVE Pow2(_)
Pow2(k) == IF k <= 0 THEN 1 ELSE 2 * Pow2(k - 1)

FloatZero(s) == [kind |-> "zero", sign |-> s, m |-> 0, e |-> 0]
FloatInf(s)  == [kind |-> "inf", sign |-> s, m |-> 0, e |-> 0]
FloatNaN     == [kind |-> "nan", sign |-> 1, m |-> 0, e |-> 0]
FiniteFloats ==
  {[kind |-> "finite", sign |-> s, m |-> m, e |-> e] :
     s \in {1, -1}, m \in Pow2(Mantissa - 1) .. Pow2(Mantissa) - 1,
     e \in MinExponent - (Mantissa - 1) .. MaxExponent}
IsFloat(f) == f.e >= MinExponent \/ f.m % Pow2(MinExponent - f.e) = 0
Floats ==
  {f \in FiniteFloats : IsFloat(f)}
    \cup {FloatZero(1), FloatZero(-1), FloatInf(1), FloatInf(-1), FloatNaN}

\* The value of a finite float in units of the smallest subnormal,
\* 2^(MinExponent - Mantissa): an integer.
Scaled(f) ==
  IF f.kind = "zero" THEN 0
  ELSE IF f.e >= MinExponent THEN f.sign * f.m * Pow2(f.e - MinExponent)
  ELSE f.sign * (f.m \div Pow2(MinExponent - f.e))
UnitsPerOne == Pow2(Mantissa - MinExponent)

\* rational::assign(floating_point).  The members are written as the
\* function goes; the receiver is whatever they hold when it throws.
assign_float(x, v) ==
  IF v.kind \in {"inf", "nan"} THEN Thrown(x)
  ELSE LET numerator0 == v.sign * v.m
           exponent0  == v.e - Mantissa
       IN  IF exponent0 > 0
           THEN assign(Rat(numerator0 * Pow2(exponent0), 1),
                       numerator0 * Pow2(exponent0), 1)
           ELSE IF exponent0 < 0
           THEN LET exponent == -exponent0
                IN  IF exponent >= MaxExponent - 1
                    THEN LET n == TruncDiv(numerator0,
                                           Pow2(exponent - (MaxExponent - 1)))
                             d == 1 * Pow2(MaxExponent - 1)
                         IN  IF n = 0 THEN Thrown(Rat(n, d))
                             ELSE assign(Rat(n, d), n, d)
                    ELSE assign(Rat(numerator0, Pow2(exponent)),
                                numerator0, Pow2(exponent))
           ELSE assign(Rat(numerator0, 1), numerator0, 1)

\* The float of sign s and magnitude k units, k a representable magnitude.
RECURSIVE Normalized(_, _, _)
Normalized(s, m, e) ==
  IF m >= Pow2(Mantissa) THEN Normalized(s, m \div 2, e + 1)
  ELSE IF m < Pow2(Mantissa - 1) THEN Normalized(s, 2 * m, e - 1)
  ELSE [kind |-> "finite", sign |-> s, m |-> m, e |-> e]
FromUnits(s, k) == IF k = 0 THEN FloatZero(s) ELSE Normalized(s, k, MinExponent)

\* a / q units (a >= 0, q > 0) rounded to nearest, ties to even, to a
\* significand of at most Mantissa bits times 2^j.
RECURSIVE RoundUnits(_, _, _)
RoundUnits(a, q, j) ==
  LET w == q * Pow2(j)
      mant == a \div w
      rest == a - mant * w
      up == 2 * rest > w \/ (2 * rest = w /\ mant % 2 = 1)
  IN  IF mant >= Pow2(Mantissa) THEN RoundUnits(a, q, j + 1)
      ELSE (IF up THEN mant + 1 ELSE mant) * Pow2(j)

\* Round to nearest, ties to even: the float nearest to p / q (q > 0),
\* infinite when the rounded magnitude is beyond the largest finite value.
Round(p, q) ==
  LET s == IF p < 0 THEN -1 ELSE 1
      k == RoundUnits(Abs(p) * UnitsPerOne, q, 0)
      top == (Pow2(Mantissa) - 1) * Pow2(MaxExponent - MinExponent)
  IN  IF k > top THEN FloatInf(s) ELSE FromUnits(s, k)

\* static_cast<result_type>(integer)
ToFloat(n) == Round(n, 1)
\* The quotient of two floats, rounded once.
FloatDiv(f, g) ==
  IF f.kind = "nan" \/ g.kind = "nan" THEN FloatNaN
  ELSE IF f.kind = "inf"
  THEN IF g.kind = "inf" THEN FloatNaN ELSE FloatInf(f.sign * g.sign)
  ELSE IF g.kind = "inf" THEN FloatZero(f.sign * g.sign)
  ELSE IF g.kind = "zero"
  THEN IF f.kind = "zero" THEN FloatNaN ELSE FloatInf(f.sign * g.sign)
  ELSE IF f.kind = "zero" THEN FloatZero(f.sign * g.sign)
  ELSE IF Scaled(g) < 0 THEN Round(-Scaled(f), -Scaled(g))
  ELSE Round(Scaled(f), Scaled(g))

\* rational::evaluate<result_type>() for a floating-point result_type.
evaluate(x) == FloatDiv(ToFloat(x.num), ToFloat(x.den))

-----------------------------------------------------------------------------
(* The life of one rational object: any sequence of the integer            *)
(* operations of the class, each applied to the object as the last one     *)
(* left it.                                                                *)

Ints == -MaxArg .. MaxArg
\* The rational arguments: values as the constructor makes them.
Operands == {rational(n, d).val : n \in Ints, d \in 1 .. MaxVal}

InWindow(x) == Abs(x.num) <= MaxVal /\ Abs(x.den) <= MaxVal

NoHist == [kind |-> "none", orig |-> Zero]
NoCmp == [eq |-> FALSE, ord |-> "none"]
NoFloat == [kind |-> "none", sign |-> 1, m |-> 0, e |-> 0]

\* The operation `name` with integer arguments a and rational argument y
\* ended as res; h is the two-operation sequence it completes, if any.
Apply(name, a, y, res, h) ==
  /\ InWindow(res.val)
  /\ r' = res.val
  /\ pre' = r
  /\ op' = name
  /\ args' = a
  /\ that' = y
  /\ outcome' = res.status
  /\ ret' = res.ret
  /\ hist' = h
  /\ UNCHANGED <<cmp, fin, ev>>

\* What the sequence "the last operation, then its inverse" started from.
Undo(kind, first, y) ==
  IF op = first /\ outcome = "ok" /\ that = y
  THEN [kind |-> kind, orig |-> pre] ELSE NoHist

\* r = rational(n, d): when the constructor throws, r keeps its value.
Construct(n, d) ==
  LET c == rational(n, d)
  IN  Apply("rational", <<n, d>>, Zero,
            IF c.status = "ok" THEN c ELSE Thrown(r), NoHist)
AssignInt(n)      == Apply("operator=", <<n>>, Zero, assign_int(r, n), NoHist)
SetNumerator(v)   == Apply("numerator", <<v>>, Zero, set_numerator(r, v), NoHist)
SetDenominator(v) == Apply("denominator", <<v>>, Zero, set_denominator(r, v), NoHist)
Assign(n, d)      == Apply("assign", <<n, d>>, Zero, assign(r, n, d), NoHist)

UnaryPlus  == Apply("+r", <<>>, Zero, operator_plus(r), NoHist)
UnaryMinus == Apply("-r", <<>>, Zero, operator_minus(r), NoHist)
Invert     == Apply("~r", <<>>, Zero, operator_invert(r), NoHist)

PlusEq(y)  == Apply("r+=y", <<>>, y, operator_plus_eq(r, y), NoHist)
MinusEq(y) == Apply("r-=y", <<>>, y, operator_minus_eq(r, y), NoHist)
TimesEq(y) == Apply("r*=y", <<>>, y, operator_times_eq(r, y),
                    Undo("r/=y, r*=y", "r/=y", y))
DivEq(y)   == Apply("r/=y", <<>>, y, operator_div_eq(r, y), NoHist)

PlusEqInt(c)  == Apply("r+=c", <<c>>, Zero, operator_plus_eq_int(r, c), NoHist)
MinusEqInt(c) == Apply("r-=c", <<c>>, Zero, operator_minus_eq_int(r, c), NoHist)
TimesEqInt(c) == Apply("r*=c", <<c>>, Zero, operator_times_eq_int(r, c), NoHist)
DivEqInt(c)   == Apply("r/=c", <<c>>, Zero, operator_div_eq_int(r, c), NoHist)

PreInc  == Apply("++r", <<>>, Zero, operator_pre_inc(r), Undo("--r, ++r", "--r", Zero))
PreDec  == Apply("--r", <<>>, Zero, operator_pre_dec(r), Undo("++r, --r", "++r", Zero))
PostInc == Apply("r++", <<>>, Zero, operator_post_inc(r), NoHist)
PostDec == Apply("r--", <<>>, Zero, operator_post_dec(r), NoHist)

FreePlusRI(c)  == Apply("r+c", <<c>>, Zero, free_plus_ri(r, c), NoHist)
FreePlusIR(c)  == Apply("c+r", <<c>>, Zero, free_plus_ir(c, r), NoHist)
FreeMinusRI(c) == Apply("r-c", <<c>>, Zero, free_minus_ri(r, c), NoHist)
FreeMinusIR(c) == Apply("c-r", <<c>>, Zero, free_minus_ir(c, r), NoHist)
FreeTimesRI(c) == Apply("r*c", <<c>>, Zero, free_times_ri(r, c), NoHist)
FreeTimesIR(c) == Apply("c*r", <<c>>, Zero, free_times_ir(c, r), NoHist)
FreeDivRI(c)   == Apply("r/c", <<c>>, Zero, free_div_ri(r, c), NoHist)
FreeDivIR(c)   == Apply("c/r", <<c>>, Zero, free_div_ir(c, r), NoHist)

\* rational(): the default arguments are type(0) and type(1).
Init ==
  /\ r = rational(0, 1).val
  /\ pre = rational(0, 1).val
  /\ op = "rational"
  /\ args = <<0, 1>>
  /\ that = Zero
  /\ outcome = "ok"
  /\ ret = <<>>
  /\ hist = NoHist
  /\ cmp = NoCmp
  /\ fin = NoFloat
  /\ ev = NoFloat

Next ==
  \/ \E n \in Ints, d \in Ints : Construct(n, d)
  \/ \E n \in Ints : AssignInt(n)
  \/ \E v \in Ints : SetNumerator(v)
  \/ \E v \in Ints : SetDenominator(v)
  \/ \E n \in Ints, d \in Ints : Assign(n, d)
  \/ UnaryPlus
  \/ UnaryMinus
  \/ Invert
  \/ \E y \in Operands : PlusEq(y)
  \/ \E y \in Operands : MinusEq(y)
  \/ \E y \in Operands : TimesEq(y)
  \/ \E y \in Operands : DivEq(y)
  \/ \E c \in Ints : PlusEqInt(c)
  \/ \E c \in Ints : MinusEqInt(c)
  \/ \E c \in Ints : TimesEqInt(c)
  \/ \E c \in Ints : DivEqInt(c)
  \/ PreInc
  \/ PreDec
  \/ PostInc
  \/ PostDec
  \/ \E c \in Ints : FreePlusRI(c)
  \/ \E c \in Ints : FreePlusIR(c)
  \/ \E c \in Ints : FreeMinusRI(c)
  \/ \E c \in Ints : FreeMinusIR(c)
  \/ \E c \in Ints : FreeTimesRI(c)
  \/ \E c \in Ints : FreeTimesIR(c)
  \/ \E c \in Ints : FreeDivRI(c)
  \/ \E c \in Ints : FreeDivIR(c)

Spec == Init /\ [][Next]_vars

-----------------------------------------------------------------------------
(* Comparison of two rationals built by the constructor from any integers  *)
(* and any nonzero integers, as in the test case.                          *)

CmpInts == -MaxCmp .. MaxCmp
CmpRationals == {rational(n, d).val : n \in CmpInts, d \in 1 .. MaxCmp}

InitCmp ==
  \E a \in CmpInts, b \in CmpInts \ {0}, c \in CmpInts, d \in CmpInts \ {0} :
    /\ r = rational(a, b).val
    /\ pre = rational(a, b).val
    /\ op = "rational"
    /\ args = <<a, b, c, d>>
    /\ that = rational(c, d).val
    /\ outcome = "ok"
    /\ ret = <<>>
    /\ hist = NoHist
    /\ cmp = NoCmp
    /\ fin = NoFloat
    /\ ev = NoFloat

\* r == that and r <=> that, both const.
Compare ==
  /\ op' = "r<=>y"
  /\ cmp' = [eq |-> operator_eq(r, that), ord |-> operator_spaceship(r, that)]
  /\ UNCHANGED <<r, pre, args, that, outcome, ret, hist, fin, ev>>

NextCmp == Compare

SpecCmp == InitCmp /\ [][NextCmp]_vars

-----------------------------------------------------------------------------
(* Conversion from and to floating point, on an object that holds any      *)
(* value the constructor makes from small integers.                        *)

InitFloat ==
  \E n \in Ints, d \in Ints \ {0} :
    /\ r = rational(n, d).val
    /\ pre = rational(n, d).val
    /\ op = "rational"
    /\ args = <<n, d>>
    /\ that = Zero
    /\ outcome = "ok"
    /\ ret = <<>>
    /\ hist = NoHist
    /\ cmp = NoCmp
    /\ fin = NoFloat
    /\ ev = NoFloat

ApplyFloat(name, v, res) ==
  /\ r' = res.val
  /\ pre' = r
  /\ op' = name
  /\ args' = <<>>
  /\ outcome' = res.status
  /\ ret' = res.ret
  /\ hist' = NoHist
  /\ fin' = v
  /\ ev' = NoFloat
  /\ UNCHANGED <<that, cmp>>

\* r.assign(v)
AssignFloat(v) == ApplyFloat("assign(float)", v, assign_float(r, v))

\* r = rational(v): the constructor runs assign on the new object; when it
\* throws, r keeps its value.
ConstructFloat(v) ==
  LET c == assign_float(Zero, v)
  IN  ApplyFloat("rational(float)", v,
                 IF c.status = "ok" THEN c ELSE Thrown(r))

\* r.evaluate<that_type>(), const.  hist tells that r was just converted
\* from fin.
Evaluate ==
  /\ op' = "evaluate"
  /\ ev' = evaluate(r)
  /\ hist' = IF op \in {"assign(float)", "rational(float)"} /\ outcome = "ok"
             THEN [kind |-> "float, evaluate", orig |-> pre] ELSE NoHist
  /\ UNCHANGED <<r, pre, args, that, outcome, ret, cmp, fin>>

NextFloat ==
  \/ \E v \in Floats : AssignFloat(v)
  \/ \E v \in Floats : ConstructFloat(v)
  \/ Evaluate

SpecFloat == InitFloat /\ [][NextFloat]_vars

-----------------------------------------------------------------------------
(* Properties.                                                             *)

\* Canonical form, stated without gcd: a positive denominator and no
\* common divisor above 1 (so a zero numerator goes with denominator 1).
IsCanonical(x) ==
  /\ x.den > 0
  /\ \A k \in 2 .. x.den : ~(x.num % k = 0 /\ x.den % k = 0)
\* x is the canonical representative of the fraction p / q.
IsRepOf(x, p, q) == IsCanonical(x) /\ x.num * q = p * x.den

\* C1: after any sequence of successful integer operations the stored pair
\* is canonical (denominator > 0, numerator and denominator coprime), and
\* so is every rational an operator returns; this includes the operations
\* that do not call canonize (+= and -= with an integer, ++, --, operator=).
C1_CanonicalForm ==
  /\ IsCanonical(r)
  /\ \A i \in 1 .. Len(ret) : IsCanonical(ret[i])
\* 1/2 += 2 has left 5/2, and 5/2 was not canonized.
C1_Witness ==
  op = "r+=c" /\ pre = Rat(1, 2) /\ args = <<2>> /\ r = Rat(5, 2)

\* The operations that can be given a zero denominator or divisor, and
\* whether the last one was.
ZeroOps == {"rational", "assign", "denominator", "r/=y", "r/=c", "r/c", "c/r"}
ZeroInput ==
  CASE op \in {"rational", "assign"} -> args[2] = 0
    [] op \in {"denominator", "r/=c", "r/c"} -> args[1] = 0
    [] op = "r/=y" -> that.num = 0
    [] op = "c/r" -> pre.num = 0
    [] OTHER -> FALSE

\* C2: rational(n, 0), assign(n, 0), denominator(0), r /= s with s = 0,
\* r /= 0, r / 0 and c / s with s = 0 end in a domain error and store or
\* return nothing; with a nonzero denominator or divisor they succeed and
\* no zero denominator is stored or returned.
C2_ZeroIsDomainError ==
  op \in ZeroOps =>
    /\ outcome = "domain_error" <=> ZeroInput
    /\ outcome = "domain_error" => r = pre /\ ret = <<>>
    /\ outcome = "ok" => r.den # 0 /\ \A i \in 1 .. Len(ret) : ret[i].den # 0
\* 2 / r was asked of r = 0/1 and threw.
C2_Witness ==
  op = "c/r" /\ args = <<2>> /\ pre = Rat(0, 1) /\ outcome = "domain_error"

\* The order of the exact values a/b and c/d (b, d nonzero, either sign):
\* both sides of a/b ? c/d are multiplied by (b*d)^2 > 0.
ExactOrder(a, b, c, d) ==
  IF a * b * d * d < c * d * b * b THEN "less"
  ELSE IF a * b * d * d > c * d * b * b THEN "greater" ELSE "equal"

\* C3: rational(a,b) == rational(c,d) iff a*d = b*c, and <=> is less,
\* equal or greater exactly as the exact value a/b is to c/d; exactly one of
\* <, ==, > holds, and < is transitive.
C3_ComparisonIsExactOrder ==
  op = "r<=>y" =>
    /\ cmp.eq <=> (args[1] * args[4] = args[2] * args[3])
    /\ cmp.ord = ExactOrder(args[1], args[2], args[3], args[4])
    /\ cmp.eq <=> (cmp.ord = "equal")
    /\ cmp.ord \in {"less", "equal", "greater"}
    /\ \A z \in CmpRationals :
         cmp.ord = "less" /\ operator_spaceship(that, z) = "less"
           => operator_spaceship(r, z) = "less"
\* rational(3, -2) < rational(-1, 2) was evaluated.
C3_Witness ==
  op = "r<=>y" /\ args = <<3, -2, -1, 2>> /\ cmp.ord = "less" /\ ~cmp.eq

AsReturned(res) == IF res.status = "ok" THEN <<res.val>> ELSE <<>>

\* C5: r+c, c+r, r-c, c-r, r*c, c*r, r/c and c/r (and the compound forms
\* with an integer) give what the rational-by-rational operation gives for
\* r and rational(c, 1) in the same operand order; c - r is the negation of
\* r - c, and c / r is rational(c,1) / r.
C5_MixedIsPromotion ==
  LET x == pre
      c == args[1]
      p == rational(c, 1).val
  IN  /\ op = "r+=c" => r = operator_plus_eq(x, p).val
      /\ op = "r-=c" => r = operator_minus_eq(x, p).val
      /\ op = "r*=c" => r = operator_times_eq(x, p).val
      /\ op = "r/=c" => /\ outcome = operator_div_eq(x, p).status
                        /\ r = operator_div_eq(x, p).val
      /\ op = "r+c" => ret = AsReturned(operator_plus_eq(x, p))
      /\ op = "c+r" => ret = AsReturned(operator_plus_eq(p, x))
      /\ op = "r-c" => ret = AsReturned(operator_minus_eq(x, p))
      /\ op = "c-r" => /\ ret = AsReturned(operator_minus_eq(p, x))
                       /\ ret = <<Rat(-(x.num - c * x.den), x.den)>>
      /\ op = "r*c" => ret = AsReturned(operator_times_eq(x, p))
      /\ op = "c*r" => ret = AsReturned(operator_times_eq(p, x))
      /\ op = "r/c" => /\ outcome = operator_div_eq(x, p).status
                       /\ ret = AsReturned(operator_div_eq(x, p))
      /\ op = "c/r" => /\ outcome = operator_div_eq(p, x).status
                       /\ ret = AsReturned(operator_div_eq(p, x))
\* 2 - 1/2 has returned 3/2.
C5_Witness ==
  op = "c-r" /\ args = <<2>> /\ pre = Rat(1, 2) /\ ret = <<Rat(3, 2)>>

\* C6: an operation that fails with a domain error leaves the receiver's
\* numerator and denominator as they were before the call.
C6_StrongErrorSafety ==
  outcome = "domain_error" => r = pre

\* C7: a /= b followed by a *= b, b nonzero of either sign, restores the
\* numerator and denominator a started with.
C7_DivideThenMultiply ==
  hist.kind = "r/=y, r*=y" => outcome = "ok" /\ r = hist.orig
\* A non-integer a was divided and then multiplied by a negative
\* non-integer b.
C7_Witness ==
  /\ hist.kind = "r/=y, r*=y"
  /\ that.num < 0 /\ that.den > 1
  /\ r.den > 1 /\ r = hist.orig

\* C8: a finite floating-point value that assign accepts is stored as its
\* exact binary value, and evaluate gives back the same floating-point
\* value, bit for bit.  Stated for the values other than zero: -0.0 is
\* stored as 0/1 and comes back as +0.0.
C8_FloatRoundTrip ==
  hist.kind = "float, evaluate" /\ fin.kind = "finite" =>
    /\ r.num * UnitsPerOne = Scaled(fin) * r.den
    /\ ev = fin

\* C9, as stated: ~r on a rational whose numerator is 0 raises no error and
\* returns a value whose denominator is 0.
C9_InvertUnvalidated ==
  op = "~r" /\ pre.num = 0 =>
    outcome = "ok" /\ Len(ret) = 1 /\ ret[1].den = 0
\* C9, amended: ~r builds its result with the two-argument constructor,
\* which validates: on a rational whose numerator is 0 it fails with a
\* domain error and returns nothing; otherwise it returns the canonical
\* reciprocal (the sign moved to the numerator).  The receiver is unchanged.
C9_InvertValidates ==
  op = "~r" =>
    /\ r = pre
    /\ pre.num = 0 => outcome = "domain_error" /\ ret = <<>>
    /\ pre.num > 0 => outcome = "ok" /\ ret = <<Rat(pre.den, pre.num)>>
    /\ pre.num < 0 => outcome = "ok" /\ ret = <<Rat(-pre.den, -pre.num)>>
\* ~r was asked of 0/1 and threw.
C9_Witness ==
  op = "~r" /\ pre = Rat(0, 1) /\ outcome = "domain_error"

\* C10: ++r leaves (a+b)/b = r + rational(1) and --r leaves (a-b)/b =
\* r - rational(1); r++ and r-- change r the same way and return the pair
\* held before; ++ then -- (or -- then ++) restores the original pair.
C10_IncrementDecrement ==
  LET a == pre.num
      b == pre.den
      one == rational(1, 1).val
  IN  /\ op \in {"++r", "r++"} =>
            r = Rat(a + b, b) /\ r = operator_plus_eq(pre, one).val
      /\ op \in {"--r", "r--"} =>
            r = Rat(a - b, b) /\ r = operator_minus_eq(pre, one).val
      /\ op \in {"r++", "r--"} => ret = <<pre>>
      /\ op \in {"++r", "--r"} => ret = <<>>
      /\ hist.kind \in {"++r, --r", "--r, ++r"} => r = hist.orig
\* ++r then --r on a non-integer.
C10_Witness ==
  hist.kind = "++r, --r" /\ r.den > 1 /\ r = hist.orig /\ pre = Rat(r.num + r.den, r.den)

=============================================================================
